---- MODULE Spec2Model ----
(***************************************************************************)
(* The Lazy Cycle Detection (Andersen style) points-to solver LCD and the  *)
(* index based points-to Graph it runs on.                                 *)
(*                                                                         *)
(* Node and edge identities are the 0-based indices of the C++ vectors;   *)
(* the TLA+ sequences that hold them are 1-based, hence the "+ 1".         *)
(* Graph's assertions are modelled as enabled: a failing assertion aborts  *)
(* the run (pc = "aborted").                                               *)
(***************************************************************************)
EXTENDS Integers, Sequences, FiniteSets, TLC

\* ----- bounds of the model -----
NumValues == 3
MaxConstraints == 2
MaxSolves == 2
MaxChain == 3
MaxNodes == 2
MaxEdges == 3

ConstraintType == {"Copy", "Load", "Store", "AddressOf"}

\* find_first() / find_next() of an exhausted BitVector, and edgesEnd().i
NoBit == -1
edgesEnd == -1

\* ----- helpers on sequences and sets -----
Min(S) == CHOOSE x \in S : \A y \in S : x <= y

RECURSIVE SetToSeq(_)
\* the members of a set of naturals in increasing order (BitVector iteration)
SetToSeq(S) == IF S = {} THEN <<>> ELSE <<Min(S)>> \o SetToSeq(S \ {Min(S)})

Range(s) == {s[i] : i \in 1 .. Len(s)}

\* std::find_if + erase: drops the first occurrence of x, if any
RemoveFirst(s, x) ==
  IF \E i \in 1 .. Len(s) : s[i] = x
  THEN LET i == Min({j \in 1 .. Len(s) : s[j] = x})
       IN  SubSeq(s, 1, i - 1) \o SubSeq(s, i + 1, Len(s))
  ELSE s

\* ----- PointsTo::Graph -----
NodeEntry == [inEdges |-> <<>>, outEdges |-> <<>>, cleared |-> FALSE]
EdgeEntry(source, target) == [source |-> source, target |-> target, cleared |-> FALSE]
Graph == [nodes |-> <<>>, numNodes |-> 0, edges |-> <<>>, numEdges |-> 0]

\* the assertion of getNode(n): n is in range and not tombstoned
getNodeOk(g, n) == n >= 0 /\ n < Len(g.nodes) /\ ~g.nodes[n + 1].cleared
\* the assertion of getEdge(e)
getEdgeOk(g, e) == e >= 0 /\ e < Len(g.edges) /\ ~g.edges[e + 1].cleared

getEdgeSource(g, e) == g.edges[e + 1].source
getEdgeTarget(g, e) == g.edges[e + 1].target
outEdges(g, n) == g.nodes[n + 1].outEdges
inEdges(g, n) == g.nodes[n + 1].inEdges

\* the node the graph hands out next, and the graph after addNode()
addConstructedNode(g) == Len(g.nodes)
\* addNode that revives the lowest tombstoned entry when there is one
addNode_Reuse(g) ==
  LET dead == {i \in 1 .. Len(g.nodes) : g.nodes[i].cleared}
  IN  IF dead = {} THEN [g EXCEPT !.nodes = Append(@, NodeEntry), !.numNodes = @ + 1]
      ELSE [g EXCEPT !.nodes[Min(dead)] = NodeEntry, !.numNodes = @ + 1]

addNode(g) == [g EXCEPT !.nodes = Append(@, NodeEntry), !.numNodes = @ + 1]

\* findEdge that looks at the first out-edge of source only
findEdge_FirstOnly(g, source, target) ==
  IF outEdges(g, source) # <<>> /\ getEdgeTarget(g, outEdges(g, source)[1]) = target
  THEN outEdges(g, source)[1]
  ELSE edgesEnd

\* first out-edge of source whose target is target, or edgesEnd
findEdge(g, source, target) ==
  LET m == SelectSeq(outEdges(g, source), LAMBDA e : getEdgeTarget(g, e) = target)
  IN  IF m = <<>> THEN edgesEnd ELSE m[1]

\* addEdge runs to completion iff none of its assertions fails
addEdgeOk(g, source, target) ==
  /\ getNodeOk(g, source)
  /\ getNodeOk(g, target)
  /\ findEdge(g, source, target) = edgesEnd

addConstructedEdge(g, source, target) ==
  LET edge == Len(g.edges)
      n1 == [g.nodes EXCEPT ![source + 1].outEdges = Append(@, edge)]
      n2 == [n1 EXCEPT ![target + 1].inEdges = Append(@, edge)]
  IN  [g EXCEPT !.edges = Append(@, EdgeEntry(source, target)),
                !.numEdges = @ + 1,
                !.nodes = n2]
addEdge(g, source, target) == addConstructedEdge(g, source, target)

removeEdgeOk(g, e) ==
  /\ getEdgeOk(g, e)
  /\ getNodeOk(g, getEdgeSource(g, e))
  /\ getNodeOk(g, getEdgeTarget(g, e))

\* removeEdge without target.removeInEdge(e)
removeEdge_KeepIn(g, e) ==
  LET s == getEdgeSource(g, e)
  IN  [g EXCEPT !.nodes = [@ EXCEPT ![s + 1].outEdges = RemoveFirst(@, e)],
                !.edges = [@ EXCEPT ![e + 1].cleared = TRUE],
                !.numEdges = @ - 1]

removeEdge(g, e) ==
  LET s == getEdgeSource(g, e)
      t == getEdgeTarget(g, e)
      n1 == [g.nodes EXCEPT ![s + 1].outEdges = RemoveFirst(@, e)]
      n2 == [n1 EXCEPT ![t + 1].inEdges = RemoveFirst(@, e)]
  IN  [g EXCEPT !.nodes = n2,
                !.edges = [@ EXCEPT ![e + 1].cleared = TRUE],
                !.numEdges = @ - 1]

RECURSIVE removeEdges(_, _)
\* one loop of removeNode: removeEdge on every edge of an adjacency list
removeEdges(g, todo) ==
  IF todo = <<>> THEN g
  ELSE removeEdges(removeEdge(g, Head(todo)), Tail(todo))

\* the in-edge loop runs first; a self-loop is unlinked from both lists by it,
\* so the out-edge loop walks the out list as that loop left it
removeOutEdges(g, n) == removeEdges(g, outEdges(g, n))
clearNode(g, n) ==
  [g EXCEPT !.nodes = [@ EXCEPT ![n + 1].cleared = TRUE], !.numNodes = @ - 1]
\* removeNode without the loop over the out-edges
removeNode_InOnly(g, n) == clearNode(removeEdges(g, inEdges(g, n)), n)

removeNode(g, n) == clearNode(removeOutEdges(removeEdges(g, inEdges(g, n)), n), n)

\* ----- Graph::JumpIterator over the node list -----
\* the end iterator holds i = -1
nodesEnd == -1
RECURSIVE jumpTo(_, _)
\* JumpIterator(i, v) and the loop of operator++: the first index from i on
\* whose entry is not empty(), or the end
jumpTo(v, i) ==
  IF i >= Len(v) THEN nodesEnd
  ELSE IF ~v[i + 1].cleared THEN i
  ELSE jumpTo(v, i + 1)
nodesBegin(g) == jumpTo(g.nodes, 0)
jumpNext(g, i) == jumpTo(g.nodes, i + 1)
RECURSIVE nodesFrom(_, _)
\* what for (i = nodesBegin(); i != nodesEnd(); ++i) visits, in order
nodesFrom(g, i) == IF i = nodesEnd THEN <<>> ELSE <<i>> \o nodesFrom(g, jumpNext(g, i))

\* ----- PointsTo::df_iterator -----
\* a StackTuple holds a node and a cursor (1-based position) into its out list
StackTuple(node) == [Node |-> node, OutEdgeItr |-> 1]
dfBegin(start) == [VisitStack |-> <<StackTuple(start)>>, Visited |-> {start}]
dfAtEnd(it) == it.VisitStack = <<>>
dfNode(it) == it.VisitStack[Len(it.VisitStack)].Node
\* peekNext() != outEdgesEnd(*i)
peekNextValid(g, it) ==
  LET Top == it.VisitStack[Len(it.VisitStack)]
  IN  Top.OutEdgeItr <= Len(outEdges(g, Top.Node))
peekNext(g, it) ==
  LET Top == it.VisitStack[Len(it.VisitStack)]
  IN  outEdges(g, Top.Node)[Top.OutEdgeItr]
\* getPath that lists every node visited so far, in index order
getPath_Visited(it) == SetToSeq(it.Visited)

getPath(it) == [i \in 1 .. Len(it.VisitStack) |-> it.VisitStack[i].Node]

RECURSIVE toNext(_, _)
\* toNext that ends the traversal when the top of the stack has no out-edge
\* left, instead of popping it and resuming at the node below
toNext_NoBacktrack(g, it) ==
  LET d == Len(it.VisitStack)
      Top == it.VisitStack[d]
  IN  IF Top.OutEdgeItr <= Len(outEdges(g, Top.Node))
      THEN LET next == getEdgeTarget(g, outEdges(g, Top.Node)[Top.OutEdgeItr])
               st == [it.VisitStack EXCEPT ![d].OutEdgeItr = @ + 1]
           IN  IF next \notin it.Visited
               THEN [VisitStack |-> Append(st, StackTuple(next)),
                     Visited |-> it.Visited \cup {next}]
               ELSE toNext(g, [it EXCEPT !.VisitStack = st])
      ELSE [it EXCEPT !.VisitStack = <<>>]

\* df_iterator::toNext: advance the cursor of the top of the stack until an
\* unvisited target is found and pushed, popping exhausted entries
toNext(g, it) ==
  LET d == Len(it.VisitStack)
      Top == it.VisitStack[d]
  IN  IF Top.OutEdgeItr <= Len(outEdges(g, Top.Node))
      THEN LET next == getEdgeTarget(g, outEdges(g, Top.Node)[Top.OutEdgeItr])
               st == [it.VisitStack EXCEPT ![d].OutEdgeItr = @ + 1]
           IN  IF next \notin it.Visited
               THEN [VisitStack |-> Append(st, StackTuple(next)),
                     Visited |-> it.Visited \cup {next}]
               ELSE toNext(g, [it EXCEPT !.VisitStack = st])
      ELSE IF d = 1
           THEN [it EXCEPT !.VisitStack = <<>>]
           ELSE toNext(g, [it EXCEPT !.VisitStack = SubSeq(it.VisitStack, 1, d - 1)])

\* a constraint as the driver writes it: Constraint(Ty, Source, Target); for
\* "x = y" Source is x, the value assigned to, and Target is y
Constraint(Ty, Source, Target) == [Type |-> Ty, Source |-> Source, Target |-> Target]

\* ----- the programs of the unit tests and of the specification -----
\* TEST(TestCases, Program1): p0 = 0, alloc_0 = 1, v0 = 2, Zero = 3, v1 = 4, v2 = 5
Program1 ==
  << Constraint("AddressOf", 0, 1), Constraint("Copy", 2, 3), Constraint("Copy", 4, 0),
     Constraint("Copy", 5, 4), Constraint("Copy", 5, 2) >>
\* TEST(TestCases, Program2): v0 = 0, Zero = 1, v1 = 2, v2 = 3
Program2 ==
  << Constraint("Copy", 0, 1), Constraint("AddressOf", 2, 0), Constraint("Copy", 3, 0),
     Constraint("Copy", 3, 2) >>
\* TEST(TestCases, Program3): a = 0, b = 1, c = 2, d = 3
Program3 ==
  << Constraint("AddressOf", 1, 0), Constraint("AddressOf", 0, 2), Constraint("Copy", 3, 0),
     Constraint("Store", 3, 1), Constraint("Load", 0, 3) >>
\* TEST(TestCases, Program4): a = 0, b = 1, c = 2, d = 3
Program4 ==
  << Constraint("Copy", 0, 1), Constraint("Copy", 2, 0), Constraint("Copy", 1, 2),
     Constraint("Copy", 2, 3) >>
\* TEST(TestCases, Program5): a = 0, b = 1, c = 2, d = 3
Program5 ==
  << Constraint("AddressOf", 0, 1), Constraint("AddressOf", 2, 3), Constraint("Store", 0, 3),
     Constraint("Store", 2, 1) >>
\* TEST(TestCases, Program6)
Program6 ==
  Program5 \o << Constraint("Copy", 0, 3), Constraint("Copy", 2, 1) >>
\* p = &x; y = p with p = 0, x = 1, y = 2
AddrCopy == << Constraint("AddressOf", 0, 1), Constraint("Copy", 2, 0) >>
\* a = &x; b = &y; *a = b; c = *a with a = 0, x = 1, b = 2, y = 3, c = 4
RoundTrip ==
  << Constraint("AddressOf", 0, 1), Constraint("AddressOf", 2, 3), Constraint("Store", 0, 2),
     Constraint("Load", 4, 0) >>
\* v0 = v1; v0 = v2; v2 = v0; v2 = &v1: a Copy cycle one of whose members has
\* a points-to bit the other lacks when the cycle is found
LostBits ==
  << Constraint("Copy", 0, 1), Constraint("Copy", 0, 2), Constraint("Copy", 2, 0),
     Constraint("AddressOf", 2, 1) >>
\* v0 = v1; v0 = v2; v1 = v0; v2 = *v0; v2 = &v3: a load through a member of a
\* Copy cycle
LostLoad ==
  << Constraint("Copy", 0, 1), Constraint("Copy", 0, 2), Constraint("Copy", 1, 0),
     Constraint("Load", 2, 0), Constraint("AddressOf", 2, 3) >>
\* v0 = v1; v1 = v0; v0 = *v2; v2 = &v0: a pointer to a member of a Copy cycle
\* that is also loaded through
StalePointee ==
  << Constraint("Copy", 0, 1), Constraint("Copy", 1, 0), Constraint("Load", 0, 2),
     Constraint("AddressOf", 2, 0) >>
\* v0 = &v0; *v0 = v1; v1 = *v0: a value that points to itself and is stored
\* and loaded through
SelfStore ==
  << Constraint("AddressOf", 0, 0), Constraint("Store", 0, 1), Constraint("Load", 1, 0) >>
\* v0 = v1; v1 = v0; v2 = v0: a Copy cycle and a copy out of it
CycleOut ==
  << Constraint("Copy", 0, 1), Constraint("Copy", 1, 0), Constraint("Copy", 2, 0) >>
\* v0 = v1; v1 = v0; v2 = v0; v1 = v2: two Copy cycles through v1 that share v0
TwoCycles ==
  << Constraint("Copy", 0, 1), Constraint("Copy", 1, 0), Constraint("Copy", 2, 0),
     Constraint("Copy", 1, 2) >>
\* v0 = v1; v2 = v0; v1 = v0: a Copy cycle v0 <-> v1 in which the edge that
\* closes it is not the first out-edge of v0's node
MissedCycle ==
  << Constraint("Copy", 0, 1), Constraint("Copy", 2, 0), Constraint("Copy", 1, 0) >>
\* the Copy chain x1 = x0; ...; xk = x(k-1) with xi = i, in every insertion order
ChainSet(k) == {Constraint("Copy", i, i - 1) : i \in 1 .. k}
Chains ==
  UNION {{s \in [1 .. k -> ChainSet(k)] : \A i, j \in 1 .. k : s[i] = s[j] => i = j}
           : k \in 1 .. MaxChain}

\* every order in which the constraints of the set S can be added
Orders(S) ==
  {s \in [1 .. Cardinality(S) -> S] : \A i, j \in 1 .. Cardinality(S) : s[i] = s[j] => i = j}

Programs ==
  {[name |-> "Program1", todo |-> Program1], [name |-> "Program2", todo |-> Program2],
   [name |-> "Program3", todo |-> Program3], [name |-> "Program4", todo |-> Program4],
   [name |-> "Program5", todo |-> Program5], [name |-> "Program6", todo |-> Program6],
   [name |-> "AddrCopy", todo |-> AddrCopy], [name |-> "RoundTrip", todo |-> RoundTrip],
   [name |-> "LostBits", todo |-> LostBits], [name |-> "LostLoad", todo |-> LostLoad],
   [name |-> "StalePointee", todo |-> StalePointee],
   [name |-> "SelfStore", todo |-> SelfStore],
   [name |-> "CycleOut", todo |-> CycleOut],
   [name |-> "TwoCycles", todo |-> TwoCycles],
   [name |-> "MissedCycle", todo |-> MissedCycle]}
  \cup {[name |-> "Chain", todo |-> s] : s \in Chains}
  \cup {[name |-> "Program4Order", todo |-> s] : s \in Orders(Range(Program4))}

\* the values the free driver draws from, and every value and node index in use
Values == 0 .. (NumValues - 1)
AllValues ==
  Values \cup UNION {{p.todo[i].Source : i \in 1 .. Len(p.todo)}
                      \cup {p.todo[i].Target : i \in 1 .. Len(p.todo)} : p \in Programs}
NodeIds == 0 .. (Cardinality(AllValues) - 1)

\* ----- std::map helpers (operator[] creates the entry it reads) -----
MapGet(m, k) == IF k \in DOMAIN m THEN m[k] ELSE {}
MapPut(m, k, v) == [x \in (DOMAIN m) \cup {k} |-> IF x = k THEN v ELSE m[x]]
MapErase(m, k) == [x \in (DOMAIN m) \ {k} |-> m[x]]
EmptyMap == [x \in {} |-> {}]

\* ----- the bit vectors of LCD.cpp -----
\* set(V, Idx) and unset(V, Idx) of the unnamed namespace on the growable
\* per-node vectors: plain insertion and removal
set(V, Idx) == V \cup {Idx}
unset(V, Idx) == V \ {Idx}
isset(V, Idx) == Idx \in V
find_first(V) == IF V = {} THEN NoBit ELSE Min(V)
find_next(V, Prev) ==
  IF {x \in V : x > Prev} = {} THEN NoBit ELSE Min({x \in V : x > Prev})

\* the worklist W is sized once (W.resize(G.getNumNodes())) and never grown:
\* unset(W, Idx) returns early for Idx >= size, W.set(Idx) does not check
\* (BitVector::set writes the bit into the allocated word)
unsetW(w, Idx) == IF Idx >= w.size THEN w ELSE [w EXCEPT !.bits = @ \ {Idx}]
setW(w, Idx) == [w EXCEPT !.bits = @ \cup {Idx}]
NoW == [size |-> 0, bits |-> {}]

VARIABLES
  G,          \* LCD::G, the constraints graph
  leftVars,   \* LCD::leftVars, node -> set of values
  rightVars,  \* LCD::rightVars, value -> node
  pts,        \* LCD::pts
  stores,     \* LCD::stores
  loads,      \* LCD::loads
  W,          \* solve(): the worklist
  R,          \* solve(): the (n, z) pairs already searched for cycles
  n,          \* solve(): the node being processed
  l,          \* solve(): the successors of n still to be visited
  z,          \* solve(): the successor visited last (NoBit before the first)
  cycles,     \* solve(): the paths findCycles returned, not yet collapsed
  pc,         \* "idle", "solving" or "aborted"
  prog,       \* the driver's program: its name and the constraints still to add
  log,        \* the constraints added so far
  solves,     \* number of solve() calls that returned
  clean       \* TRUE iff no constraint was added since solve() last returned

vars == <<G, leftVars, rightVars, pts, stores, loads, W, R, n, l, z, cycles,
          pc, prog, log, solves, clean>>
lcdVars == <<G, leftVars, rightVars, pts, stores, loads>>
solveVars == <<W, R, n, l, z, cycles>>

\* ----- LCD::ensureVertex -----
\* the object after ensureVertex(X), and the vertex it returns
ensureVertex(o, X) ==
  IF X \in DOMAIN o.rightVars THEN o
  ELSE LET x == addConstructedNode(o.G)
       IN  [o EXCEPT !.G = addNode(o.G),
                     !.rightVars = MapPut(o.rightVars, X, x),
                     !.leftVars = MapPut(o.leftVars, x, MapGet(o.leftVars, x) \cup {X})]
vertexOf(o, X) ==
  IF X \in DOMAIN o.rightVars THEN o.rightVars[X] ELSE addConstructedNode(o.G)

\* the LCD object as a record; ok is FALSE once an assertion has failed
This ==
  [G |-> G, leftVars |-> leftVars, rightVars |-> rightVars,
   pts |-> pts, stores |-> stores, loads |-> loads, ok |-> TRUE]

\* ----- LCD::addConstraint -----
\* (addConstraint_CopyReversed below is addConstraint with the Copy edge drawn
\* the other way; addConstraint itself follows it)
\* addConstraint with the Copy edge drawn from the assigned value to the
\* value copied
addConstraint_CopyReversed(o, c) ==
  LET o1 == ensureVertex(o, c.Source)
      a == vertexOf(o, c.Source)
      o2 == ensureVertex(o1, c.Target)
      b == vertexOf(o1, c.Target)
  IN  CASE c.Type = "AddressOf" -> [o2 EXCEPT !.pts[a] = set(@, b)]
        [] c.Type = "Copy" ->
             IF addEdgeOk(o2.G, a, b)
             THEN [o2 EXCEPT !.G = addEdge(@, a, b)]
             ELSE [o2 EXCEPT !.ok = FALSE]
        [] c.Type = "Store" -> [o2 EXCEPT !.stores[a] = set(@, b)]
        [] c.Type = "Load" -> [o2 EXCEPT !.loads[b] = set(@, a)]

addConstraint(o, c) ==
  LET o1 == ensureVertex(o, c.Source)
      a == vertexOf(o, c.Source)
      o2 == ensureVertex(o1, c.Target)
      b == vertexOf(o1, c.Target)
  IN  CASE c.Type = "AddressOf" -> [o2 EXCEPT !.pts[a] = set(@, b)]
        [] c.Type = "Copy" ->
             IF addEdgeOk(o2.G, b, a)
             THEN [o2 EXCEPT !.G = addEdge(@, b, a)]
             ELSE [o2 EXCEPT !.ok = FALSE]
        [] c.Type = "Store" -> [o2 EXCEPT !.stores[a] = set(@, b)]
        [] c.Type = "Load" -> [o2 EXCEPT !.loads[b] = set(@, a)]

\* ----- LCD::findCycles -----
RECURSIVE findCyclesFrom(_, _, _, _)
\* the loop of findCycles: i is the df_iterator, result the paths so far
findCyclesFrom(g, s, i, result) ==
  IF dfAtEnd(i) THEN result
  ELSE findCyclesFrom(g, s, toNext(g, i),
         IF peekNextValid(g, i) /\ getEdgeTarget(g, peekNext(g, i)) = s
         THEN Append(result, getPath(i))
         ELSE result)
findCycles(g, s) == findCyclesFrom(g, s, dfBegin(s), <<>>)

\* ----- LCD::collapse -----
\* the statements of the in-edge loop for the edge v -> u
\* redirectIn that never adds the edge
redirectIn_NoEdge(o, origin, v) == o

\* the edge v -> origin is added when it is missing
redirectIn(o, origin, v) ==
  IF v # origin /\ findEdge(o.G, v, origin) = edgesEnd
  THEN [o EXCEPT !.G = addEdge(@, v, origin)]
  ELSE o
\* the bit v moves from pts[u] to pts[origin]
movePts(o, origin, u, v) ==
  IF isset(o.pts[u], v)
  THEN [o EXCEPT !.pts = [@ EXCEPT ![u] = unset(@, v), ![origin] = set(@, v)]]
  ELSE o
\* the bit v moves from stores[u] to stores[origin]
moveStores(o, origin, u, v) ==
  IF isset(o.stores[u], v)
  THEN [o EXCEPT !.stores = [@ EXCEPT ![u] = unset(@, v), ![origin] = set(@, v)]]
  ELSE o
\* the bit u of loads[v] becomes the bit origin
retargetLoads(o, origin, u, v) ==
  IF isset(o.loads[v], u)
  THEN [o EXCEPT !.loads = [@ EXCEPT ![v] = set(unset(@, u), origin)]]
  ELSE o
\* the body of the in-edge loop; findEdge and addEdge assert that the nodes
\* they are given are live
collapseInEdge(o, origin, u, v) ==
  IF u = v THEN o
  ELSE IF v # origin /\ ~getNodeOk(o.G, v) THEN [o EXCEPT !.ok = FALSE]
  ELSE IF v # origin /\ findEdge(o.G, v, origin) = edgesEnd /\ ~getNodeOk(o.G, origin)
       THEN [o EXCEPT !.ok = FALSE]
  ELSE retargetLoads(
         moveStores(movePts(redirectIn(o, origin, v), origin, u, v), origin, u, v),
         origin, u, v)

RECURSIVE collapseIn(_, _, _, _)
\* the in-edge loop of collapse for path node u; todo is what is left of
\* u's in list
collapseIn(o, origin, u, todo) ==
  IF todo = <<>> \/ ~o.ok THEN o
  ELSE collapseIn(collapseInEdge(o, origin, u, getEdgeSource(o.G, Head(todo))),
                  origin, u, Tail(todo))

RECURSIVE collapseOut(_, _, _, _)
\* collapse that forgets to redirect the out-edges of u
collapseOut_NoRedirect(o, origin, u, todo) == o

\* the out-edge loop of collapse for path node u
collapseOut(o, origin, u, todo) ==
  IF todo = <<>> \/ ~o.ok THEN o
  ELSE LET v == getEdgeTarget(o.G, Head(todo))
           missing == origin # v /\ findEdge(o.G, origin, v) = edgesEnd
       IN  IF u = v THEN collapseOut(o, origin, u, Tail(todo))
           ELSE IF origin # v /\ ~getNodeOk(o.G, origin) THEN [o EXCEPT !.ok = FALSE]
           ELSE IF missing /\ ~getNodeOk(o.G, v) THEN [o EXCEPT !.ok = FALSE]
           ELSE collapseOut(IF missing THEN [o EXCEPT !.G = addEdge(@, origin, v)] ELSE o,
                            origin, u, Tail(todo))

\* moveVars that forgets the values of u instead of moving them to origin
moveVars_DropValues(o, origin, u) ==
  LET vals == MapGet(o.leftVars, u)
  IN  IF ~o.ok THEN o
      ELSE [o EXCEPT !.rightVars = [X \in (DOMAIN o.rightVars) \ vals |-> o.rightVars[X]],
                     !.leftVars = MapErase(o.leftVars, u),
                     !.G = removeNode(@, u)]

\* moveVars without leftVars.erase(u)
moveVars_NoErase(o, origin, u) ==
  LET vals == MapGet(o.leftVars, u)
      rv == [X \in (DOMAIN o.rightVars) \cup vals |->
               IF X \in vals THEN origin ELSE o.rightVars[X]]
      lv == IF vals = {} THEN o.leftVars
            ELSE MapPut(o.leftVars, origin, MapGet(o.leftVars, origin) \cup vals)
  IN  IF ~o.ok THEN o
      ELSE [o EXCEPT !.rightVars = rv, !.leftVars = lv, !.G = removeNode(@, u)]

\* the values of u move to origin, then u is erased and removed
moveVars(o, origin, u) ==
  LET vals == MapGet(o.leftVars, u)
      rv == [X \in (DOMAIN o.rightVars) \cup vals |->
               IF X \in vals THEN origin ELSE o.rightVars[X]]
      lv == IF vals = {} THEN o.leftVars
            ELSE MapPut(o.leftVars, origin, MapGet(o.leftVars, origin) \cup vals)
  IN  IF ~o.ok THEN o
      ELSE [o EXCEPT !.rightVars = rv,
                     !.leftVars = MapErase(lv, u),
                     !.G = removeNode(@, u)]
collapseInOf(o, origin, u) == collapseIn(o, origin, u, inEdges(o.G, u))
collapseOutOf(o, origin, u) == collapseOut(o, origin, u, outEdges(o.G, u))

\* the body of collapse's outer loop for one path node u
collapseNode(o, origin, u) ==
  IF ~o.ok THEN o
  ELSE IF ~getNodeOk(o.G, u) THEN [o EXCEPT !.ok = FALSE]
  ELSE moveVars(collapseOutOf(collapseInOf(o, origin, u), origin, u), origin, u)

RECURSIVE collapseFrom(_, _, _)
collapseFrom(o, origin, rest) ==
  IF rest = <<>> THEN o
  ELSE collapseFrom(collapseNode(o, origin, Head(rest)), origin, Tail(rest))
collapse(o, path) == collapseFrom(o, Head(path), Tail(path))

\* ----- LCD::alias -----
RECURSIVE aliasFrom(_, _, _)
\* the loop of alias: TRUE iff the traversal reaches a
aliasFrom(g, a, i) ==
  IF dfAtEnd(i) THEN FALSE
  ELSE IF dfNode(i) = a THEN TRUE
  ELSE aliasFrom(g, a, toNext(g, i))

\* alias that searches from A's node for B's node
aliasIn_FromA(o, A, B) ==
  IF A \notin DOMAIN o.rightVars \/ B \notin DOMAIN o.rightVars THEN FALSE
  ELSE IF A = B THEN TRUE
  ELSE aliasFrom(o.G, o.rightVars[B], dfBegin(o.rightVars[A]))

\* alias(A, B) on the object o
aliasIn(o, A, B) ==
  IF A \notin DOMAIN o.rightVars \/ B \notin DOMAIN o.rightVars THEN FALSE
  ELSE IF A = B THEN TRUE
  ELSE aliasFrom(o.G, o.rightVars[A], dfBegin(o.rightVars[B]))
alias(A, B) == aliasIn(This, A, B)
\* alias(A, B) trips the assertion of getNode when B's node is tombstoned
aliasOk(A, B) ==
  (A \in DOMAIN rightVars /\ B \in DOMAIN rightVars /\ A # B)
    => getNodeOk(G, rightVars[B])

\* ----- LCD::solve, one action per loop iteration -----
\* W.find_first(): scans the NumBitWords(size) words of the vector
findFirstW(w) == IF w.size = 0 THEN NoBit ELSE find_first(w.bits)

\* materialize with the store edge drawn from the pointee to the stored value
materialize_StoreReversed(m) ==
  LET perV(v) ==
        [i \in 1 .. Cardinality(loads[m]) |-> <<v, SetToSeq(loads[m])[i]>>]
        \o [i \in 1 .. Cardinality(stores[m]) |-> <<v, SetToSeq(stores[m])[i]>>]
      F[i \in 0 .. Cardinality(pts[m])] ==
        IF i = 0 THEN <<>> ELSE F[i - 1] \o perV(SetToSeq(pts[m])[i])
  IN  F[Cardinality(pts[m])]

\* materialize with the store edge drawn from the pointer m itself
materialize_StoreFromPointer(m) ==
  LET perV(v) ==
        [i \in 1 .. Cardinality(loads[m]) |-> <<v, SetToSeq(loads[m])[i]>>]
        \o [i \in 1 .. Cardinality(stores[m]) |-> <<m, v>>]
      F[i \in 0 .. Cardinality(pts[m])] ==
        IF i = 0 THEN <<>> ELSE F[i - 1] \o perV(SetToSeq(pts[m])[i])
  IN  F[Cardinality(pts[m])]

\* materialize without the load edges
materialize_NoLoads(m) ==
  LET perV(v) ==
        [i \in 1 .. Cardinality(stores[m]) |-> <<SetToSeq(stores[m])[i], v>>]
      F[i \in 0 .. Cardinality(pts[m])] ==
        IF i = 0 THEN <<>> ELSE F[i - 1] \o perV(SetToSeq(pts[m])[i])
  IN  F[Cardinality(pts[m])]

\* the edges the two inner loops of solve() ask for while processing node m,
\* in the order they ask: for each v of pts[m], an edge v -> a for each load
\* a = *m and then an edge b -> v for each store *m = b; the source of each
\* pair is the node that W.set() marks when the edge is new
materialize(m) ==
  LET perV(v) ==
        [i \in 1 .. Cardinality(loads[m]) |-> <<v, SetToSeq(loads[m])[i]>>]
        \o [i \in 1 .. Cardinality(stores[m]) |-> <<SetToSeq(stores[m])[i], v>>]
      F[i \in 0 .. Cardinality(pts[m])] ==
        IF i = 0 THEN <<>> ELSE F[i - 1] \o perV(SetToSeq(pts[m])[i])
  IN  F[Cardinality(pts[m])]

RECURSIVE addEdges(_, _)
\* runs the requests of materialize on s = [G, W, ok]
addEdges(s, todo) ==
  IF todo = <<>> \/ ~s.ok THEN s
  ELSE LET src == Head(todo)[1]
           dst == Head(todo)[2]
       IN  IF ~getNodeOk(s.G, src) THEN [s EXCEPT !.ok = FALSE]
           ELSE IF findEdge(s.G, src, dst) # edgesEnd THEN addEdges(s, Tail(todo))
           ELSE IF ~getNodeOk(s.G, dst) THEN [s EXCEPT !.ok = FALSE]
           ELSE addEdges([s EXCEPT !.G = addEdge(@, src, dst), !.W = setW(@, src)],
                         Tail(todo))

\* the set l of solve(): the targets of n's out-edges
successors(g, m) == {getEdgeTarget(g, outEdges(g, m)[i]) : i \in 1 .. Len(outEdges(g, m))}

RECURSIVE unsetAllW(_, _)
unsetAllW(w, nodes) ==
  IF nodes = <<>> THEN w ELSE unsetAllW(unsetW(w, Head(nodes)), Tail(nodes))

Abort ==
  /\ pc' = "aborted"
  /\ UNCHANGED <<lcdVars, solveVars, prog, log, solves, clean>>

\* solve() is entered: every index below getNumNodes() is put in W
SolveBegin ==
  /\ pc = "idle"
  /\ prog.name # "graph"
  /\ prog.todo = <<>>
  /\ solves < MaxSolves
  /\ pc' = "solving"
  /\ W' = [size |-> G.numNodes, bits |-> 0 .. (G.numNodes - 1)]
  /\ R' = {}
  /\ n' = NoBit
  /\ l' = {}
  /\ z' = NoBit
  /\ cycles' = <<>>
  /\ UNCHANGED <<lcdVars, prog, log, solves, clean>>

\* the for loop over l has run out (or has not been entered yet)
SuccessorsDone == cycles = <<>> /\ find_next(l, z) = NoBit

\* lines 88-108: pop a node, materialise its load and store edges, collect l
PopNode ==
  /\ pc = "solving"
  /\ SuccessorsDone
  /\ findFirstW(W) # NoBit
  /\ LET m == findFirstW(W)
         s == addEdges([G |-> G, W |-> [W EXCEPT !.bits = @ \ {m}], ok |-> TRUE],
                       materialize(m))
     IN  IF s.ok /\ getNodeOk(s.G, m)
         THEN /\ n' = m
              /\ G' = s.G
              /\ W' = s.W
              /\ l' = successors(s.G, m)
              /\ z' = NoBit
              /\ UNCHANGED <<leftVars, rightVars, pts, stores, loads, R, cycles,
                             pc, prog, log, solves, clean>>
         ELSE Abort

\* pts[z] = pts[n] in place of the union
propagate_Assign(p, m, zz) == [p EXCEPT ![zz] = p[m]]

\* line 128: pts[z] |= pts[n]
propagate(p, m, zz) == [p EXCEPT ![zz] = @ \cup p[m]]

\* lines 109-131 for one successor z, up to the call of findCycles
VisitSuccessor ==
  /\ pc = "solving"
  /\ cycles = <<>>
  /\ find_next(l, z) # NoBit
  /\ LET zz == find_next(l, z)
     IN  IF pts[n] = pts[zz]
         THEN IF <<n, zz>> \in R
              THEN /\ z' = zz
                   /\ UNCHANGED <<lcdVars, W, R, n, l, cycles, pc, prog, log, solves, clean>>
              ELSE IF ~getNodeOk(G, zz) THEN Abort
              ELSE /\ z' = zz
                   /\ cycles' = findCycles(G, zz)
                   /\ R' = IF findCycles(G, zz) = <<>> THEN R \cup {<<n, zz>>} ELSE R
                   /\ UNCHANGED <<lcdVars, W, n, l, pc, prog, log, solves, clean>>
         ELSE /\ z' = zz
              /\ pts' = propagate(pts, n, zz)
              /\ W' = setW(W, zz)
              /\ UNCHANGED <<G, leftVars, rightVars, stores, loads, R, n, l, cycles,
                             pc, prog, log, solves, clean>>

\* the state after collapse(path) has left the object o
Collapsed(o, path) ==
  IF o.ok
  THEN /\ G' = o.G
       /\ leftVars' = o.leftVars
       /\ rightVars' = o.rightVars
       /\ pts' = o.pts
       /\ stores' = o.stores
       /\ loads' = o.loads
       /\ W' = unsetAllW(W, Tail(path))
       /\ l' = l \ Range(Tail(path))
       /\ cycles' = Tail(cycles)
       /\ R' = IF Tail(cycles) = <<>> THEN R \cup {<<n, z>>} ELSE R
       /\ UNCHANGED <<n, z, pc, prog, log, solves, clean>>
  ELSE Abort

\* lines 114-124 for one path: collapse it and purge its nodes from W and l
CollapsePath ==
  /\ pc = "solving"
  /\ cycles # <<>>
  /\ Collapsed(collapse(This, Head(cycles)), Head(cycles))

\* W.find_first() == -1: solve() returns
SolveReturn ==
  /\ pc = "solving"
  /\ SuccessorsDone
  /\ findFirstW(W) = NoBit
  /\ pc' = "idle"
  /\ solves' = solves + 1
  /\ clean' = TRUE
  /\ W' = NoW
  /\ R' = {}
  /\ n' = NoBit
  /\ l' = {}
  /\ z' = NoBit
  /\ cycles' = <<>>
  /\ UNCHANGED <<lcdVars, prog, log>>

\* ----- the driver -----
\* values are numbered in order of first use, so a constraint names either a
\* registered value or the lowest unregistered one
NextFresh(rv) == Cardinality(DOMAIN rv)
Constraints(rv) ==
  {Constraint(ty, s, t) : ty \in ConstraintType,
                          s \in {x \in Values : x <= NextFresh(rv)},
                          t \in {x \in Values : x <= NextFresh(rv) + 1}}

Apply(c) ==
  LET o == addConstraint(This, c)
  IN  IF o.ok
      THEN /\ G' = o.G
           /\ leftVars' = o.leftVars
           /\ rightVars' = o.rightVars
           /\ pts' = o.pts
           /\ stores' = o.stores
           /\ loads' = o.loads
           /\ log' = log \cup {c}
           /\ clean' = FALSE
           /\ UNCHANGED <<solveVars, pc, solves>>
      ELSE /\ pc' = "aborted"
           /\ UNCHANGED <<lcdVars, solveVars, log, solves, clean>>

\* addConstraint with any constraint
AddConstraint ==
  /\ pc = "idle"
  /\ prog.name = "free"
  /\ Cardinality(log) < MaxConstraints
  /\ \E c \in Constraints(rightVars) :
       /\ (c.Source = NextFresh(rightVars)) => c.Target <= NextFresh(rightVars) + 1
       /\ (c.Source < NextFresh(rightVars)) => c.Target <= NextFresh(rightVars)
       /\ Apply(c)
  /\ UNCHANGED prog

InitLCD ==
  /\ G = Graph
  /\ leftVars = EmptyMap
  /\ rightVars = EmptyMap
  /\ pts = [x \in NodeIds |-> {}]
  /\ stores = [x \in NodeIds |-> {}]
  /\ loads = [x \in NodeIds |-> {}]
  /\ W = NoW
  /\ R = {}
  /\ n = NoBit
  /\ l = {}
  /\ z = NoBit
  /\ cycles = <<>>
  /\ pc = "idle"
  /\ log = {}
  /\ solves = 0
  /\ clean = FALSE

\* the driver of the fixed programs: the next constraint of the program
AddProgramConstraint ==
  /\ pc = "idle"
  /\ prog.todo # <<>>
  /\ Apply(Head(prog.todo))
  /\ prog' = [prog EXCEPT !.todo = Tail(@)]

\* alias that looks its arguments up with ensureVertex, registering them
aliasCall_Registers(o, A, B) ==
  [o |-> ensureVertex(ensureVertex(o, A), B), result |-> aliasIn(o, A, B)]

\* a call alias(A, B): the object it leaves and the answer; both lookups are
\* rightVars.find, which inserts nothing
aliasCall(o, A, B) == [o |-> o, result |-> aliasIn(o, A, B)]

\* the object o is what the call has left
AliasReturn(o) ==
  /\ G' = o.G
  /\ leftVars' = o.leftVars
  /\ rightVars' = o.rightVars
  /\ pts' = o.pts
  /\ stores' = o.stores
  /\ loads' = o.loads
  /\ UNCHANGED <<solveVars, pc, prog, log, solves, clean>>

\* alias(A, B) is asked about any two values, registered or not
Alias ==
  /\ pc = "idle"
  /\ prog.name # "graph"
  /\ \E A, B \in AllValues :
       IF aliasOk(A, B) THEN AliasReturn(aliasCall(This, A, B).o) ELSE Abort

\* ----- the driver of the graph alone -----
\* Graph::addNode()
GraphAddNode ==
  /\ pc = "idle" /\ prog.name = "graph"
  /\ Len(G.nodes) < MaxNodes
  /\ G' = addNode(G)
  /\ UNCHANGED <<leftVars, rightVars, pts, stores, loads, solveVars, pc, prog, log, solves, clean>>

\* Graph::addEdge(source, target) with any two node ids
GraphAddEdge ==
  /\ pc = "idle" /\ prog.name = "graph"
  /\ Len(G.edges) < MaxEdges
  /\ \E source, target \in 0 .. (MaxNodes - 1) :
       IF addEdgeOk(G, source, target)
       THEN /\ G' = addEdge(G, source, target)
            /\ UNCHANGED <<leftVars, rightVars, pts, stores, loads, solveVars, pc, prog,
                           log, solves, clean>>
       ELSE Abort

\* Graph::removeEdge(e) with any edge id
GraphRemoveEdge ==
  /\ pc = "idle" /\ prog.name = "graph"
  /\ \E e \in 0 .. (MaxEdges - 1) :
       IF removeEdgeOk(G, e)
       THEN /\ G' = removeEdge(G, e)
            /\ UNCHANGED <<leftVars, rightVars, pts, stores, loads, solveVars, pc, prog,
                           log, solves, clean>>
       ELSE Abort

\* Graph::removeNode(n) with any node id
GraphRemoveNode ==
  /\ pc = "idle" /\ prog.name = "graph"
  /\ \E m \in 0 .. (MaxNodes - 1) :
       IF getNodeOk(G, m)
       THEN /\ G' = removeNode(G, m)
            /\ UNCHANGED <<leftVars, rightVars, pts, stores, loads, solveVars, pc, prog,
                           log, solves, clean>>
       ELSE Abort

\* a run either follows one of the fixed programs or adds constraints freely
\* or drives the graph alone
Init ==
  /\ InitLCD
  /\ prog \in Programs \cup {[name |-> "free", todo |-> <<>>],
                              [name |-> "graph", todo |-> <<>>]}

Next ==
  \/ AddConstraint
  \/ AddProgramConstraint
  \/ Alias
  \/ SolveBegin
  \/ PopNode
  \/ VisitSuccessor
  \/ CollapsePath
  \/ SolveReturn
  \/ GraphAddNode
  \/ GraphAddEdge
  \/ GraphRemoveEdge
  \/ GraphRemoveNode

Spec == Init /\ [][Next]_vars

\* solve() has returned at least once and nothing is left to add
Solved == pc = "idle" /\ prog.todo = <<>> /\ solves >= 1

\* the expectations of the unit tests
TestExpectations ==
  Solved =>
    /\ prog.name = "Program1" =>
         /\ alias(5, 0) /\ alias(4, 0) /\ alias(5, 2)
         /\ ~alias(0, 5) /\ ~alias(2, 4) /\ ~alias(4, 2) /\ ~alias(2, 1)
    /\ prog.name = "Program3" =>
         /\ alias(3, 0) /\ alias(2, 1) /\ alias(0, 2) /\ alias(0, 1)
         /\ ~alias(1, 0) /\ ~alias(1, 2) /\ ~alias(0, 3) /\ ~alias(2, 3)
    /\ prog.name = "Program4" =>
         /\ alias(0, 3) /\ alias(1, 3) /\ alias(2, 3)
         /\ ~alias(3, 0) /\ ~alias(3, 1) /\ ~alias(3, 2)
    /\ prog.name = "Program5" =>
         /\ alias(1, 3) /\ alias(3, 1)
         /\ ~alias(3, 0) /\ ~alias(3, 2) /\ ~alias(1, 0) /\ ~alias(1, 2)
    /\ prog.name = "Program6" =>
         /\ alias(1, 3) /\ alias(3, 1) /\ alias(2, 1) /\ alias(2, 3)
         /\ alias(0, 3) /\ alias(0, 1)
         /\ ~alias(0, 2) /\ ~alias(2, 0) /\ ~alias(1, 0) /\ ~alias(3, 2)

\* ----- the reference solver: Andersen's rules without cycle collapsing -----
\* it works on the values themselves; e is the set of flow edges <<from, to>>
\* and p the points-to set of every value
RefStep(cs, st) ==
  LET loadE == UNION {{<<o, c.Source>> : o \in st.p[c.Target]} : c \in {d \in cs : d.Type = "Load"}}
      storeE == UNION {{<<c.Target, o>> : o \in st.p[c.Source]} : c \in {d \in cs : d.Type = "Store"}}
      e2 == st.e \cup loadE \cup storeE
      p2 == [v \in DOMAIN st.p |-> st.p[v] \cup UNION {st.p[ed[1]] : ed \in {x \in e2 : x[2] = v}}]
  IN  [e |-> e2, p |-> p2]

RECURSIVE RefFix(_, _)
RefFix(cs, st) == IF RefStep(cs, st) = st THEN st ELSE RefFix(cs, RefStep(cs, st))

RefSolve(cs) ==
  LET D == {c.Source : c \in cs} \cup {c.Target : c \in cs}
  IN  RefFix(cs, [e |-> {<<c.Target, c.Source>> : c \in {d \in cs : d.Type = "Copy"}},
                  p |-> [v \in D |-> {c.Target : c \in {d \in cs : d.Type = "AddressOf" /\ d.Source = v}}]])

RECURSIVE RefReach(_, _)
\* the values reachable from the set S along the edges e
RefReach(e, S) ==
  LET T == S \cup {ed[2] : ed \in {x \in e : x[1] \in S}}
  IN  IF T = S THEN S ELSE RefReach(e, T)

RefAlias(cs, A, B) == A \in RefReach(RefSolve(cs).e, {B})

\* solve() has returned once, on exactly the constraints of log
FirstSolved == pc = "idle" /\ solves = 1 /\ clean /\ prog.todo = <<>>

\* ----- the properties -----

\* C1: for the Copy chain x1 = x0; ...; xk = x(k-1), added in any order,
\* alias(xi, x0) is true for every i in 1..k once solve() has returned
C1_CopyChainAlias ==
  (prog.name = "Chain" /\ Solved) => \A i \in 1 .. Cardinality(log) : alias(i, 0)
C1_Witness ==
  prog.name = "Chain" /\ Solved /\ Cardinality(log) = MaxChain /\ alias(MaxChain, 0)

\* C2: after solve() has completed, every alias(A, B) answer equals the answer
\* of the reference solver (reachability of A from B in the saturated graph
\* built without cycle collapsing)
C2_AliasMatchesReference ==
  FirstSolved =>
    \A A, B \in DOMAIN rightVars : alias(A, B) <=> RefAlias(log, A, B)

\* C3: a solve() call that has been entered is never cut short: it keeps
\* iterating until the worklist is empty and then returns (W is sized at entry
\* and dropped at return, so W.size > 0 marks a call in progress)
C3_SolveReachesEmptyWorklist ==
  (solves = 0 /\ W.size > 0) => pc # "aborted"

\* C4: for b = &a; a = &c; d = a; *d = b; a = *d solve() runs to completion
\* and afterwards alias(d,a), alias(c,b), alias(a,c), alias(a,b) are true and
\* alias(b,a), alias(b,c), alias(a,d), alias(c,d) are false
C4_DoubleIndirection ==
  prog.name = "Program3" =>
    /\ solves = 0 => pc # "aborted"
    /\ Solved =>
         /\ alias(3, 0) /\ alias(2, 1) /\ alias(0, 2) /\ alias(0, 1)
         /\ ~alias(1, 0) /\ ~alias(1, 2) /\ ~alias(0, 3) /\ ~alias(2, 3)
C4_Witness ==
  prog.name = "Program3" /\ Solved /\ alias(2, 1) /\ ~alias(1, 0)

\* C5: for a = &x; b = &y; *a = b; c = *a, alias(c, b) is true after solve()
C5_StoreLoadRoundTrip ==
  (prog.name = "RoundTrip" /\ Solved) => alias(4, 2)
C5_Witness ==
  prog.name = "RoundTrip" /\ Solved /\ alias(4, 2) /\ G.numEdges > 0

\* C6: for p = &x; y = p, alias(y, p) is true and alias(p, x) is false, before
\* solve() as well as after it
C6_AddressOfNoAlias ==
  (prog.name = "AddrCopy" /\ prog.todo = <<>> /\ pc = "idle") =>
    alias(2, 0) /\ ~alias(0, 1)
C6_Witness ==
  prog.name = "AddrCopy" /\ Solved /\ alias(2, 0) /\ ~alias(0, 1)

\* C7: a solve() call made right after solve() has returned completes
\* normally and changes no points-to set, no node or edge and no value map
C7_SolveIdempotent ==
  [][(clean /\ pc = "solving") => (pc' # "aborted" /\ UNCHANGED lcdVars)]_vars

\* C8: a collapse leaves every points-to bit of every collapsed path node in
\* the points-to set of the path's first node
C8_CollapseKeepsPtsUnion ==
  [][(pc = "solving" /\ cycles # <<>> /\ pc' = "solving") =>
       \A i \in 1 .. Len(Head(cycles)) :
         pts[Head(cycles)[i]] \subseteq pts'[Head(cycles)[1]]]_vars

\* C9: an alias(A, B) answer that is true before a collapse is true after it
C9_CollapseKeepsAlias ==
  [][(pc = "solving" /\ cycles # <<>> /\ pc' = "solving") =>
       \A A, B \in DOMAIN rightVars : alias(A, B) => alias(A, B)']_vars
\* a collapse that merged two nodes has happened and an alias answer between
\* two different values, one of them on a merged node, is true
C9_Witness ==
  /\ pc = "solving"
  /\ G.numNodes < Len(G.nodes)
  /\ \E A, B \in DOMAIN rightVars :
       A # B /\ rightVars[A] # rightVars[B] /\ alias(A, B)
          /\ Cardinality(MapGet(leftVars, rightVars[B])) > 1

\* C10: in every step of solve(), a node that is live before and after the
\* step keeps every points-to bit it had
C10_PtsMonotone ==
  [][pc = "solving" =>
       \A x \in NodeIds :
         (getNodeOk(G, x) /\ getNodeOk(G', x)) => pts[x] \subseteq pts'[x]]_vars
\* solve() is running and the node of some value holds points-to bits although
\* no AddressOf constraint assigns to a value of that node: it gained them
C10_Witness ==
  /\ pc = "solving"
  /\ \E v \in DOMAIN rightVars :
       /\ getNodeOk(G, rightVars[v])
       /\ pts[rightVars[v]] # {}
       /\ {c \in log : c.Type = "AddressOf" /\ rightVars[c.Source] = rightVars[v]} = {}

\* the <<source, target>> pairs of the live edges of g
liveEdges(g) ==
  {<<g.edges[i].source, g.edges[i].target>> :
     i \in {j \in 1 .. Len(g.edges) : ~g.edges[j].cleared}}

\* C11: for registered values A and B, alias(A, B) is true exactly when the
\* node of A is reachable from the node of B along zero or more live edges
C11_AliasIsReachability ==
  \A A, B \in DOMAIN rightVars :
    alias(A, B) <=> rightVars[A] \in RefReach(liveEdges(G), {rightVars[B]})
\* A is reached from B over more than one edge, and B is not reached from A
C11_Witness ==
  \E A, B \in DOMAIN rightVars :
    /\ alias(A, B) /\ ~alias(B, A)
    /\ rightVars[A] # rightVars[B]
    /\ <<rightVars[B], rightVars[A]>> \notin liveEdges(G)

\* the values that have been operands of an addConstraint call
Operands == {c.Source : c \in log} \cup {c.Target : c \in log}

\* C12: alias(v, v) is true for every value v that has been an operand of
\* addConstraint, before solve(), after it and after v's node was merged away
C12_SelfAlias == \A v \in Operands : alias(v, v)
\* a collapse has moved the value v to another node than the one it was
\* registered on (values are numbered in order of registration, as nodes are)
C12_Witness ==
  \E v \in Operands :
    /\ prog.name = "free"
    /\ v \in DOMAIN rightVars /\ rightVars[v] # v
    /\ ~getNodeOk(G, v)
    /\ alias(v, v)

\* C13: for a value v that was never an operand of addConstraint, alias(v, w)
\* and alias(w, v) are false for every value w, v itself included; the query
\* trips no assertion and v stays unregistered whatever has been asked (in
\* the runs that drive the solver, where alias is called)
C13_UnregisteredNeverAlias ==
  prog.name # "graph" =>
    \A v \in AllValues \ Operands : \A w \in AllValues :
      /\ ~aliasCall(This, v, w).result /\ ~aliasCall(This, w, v).result
      /\ aliasOk(v, w) /\ aliasOk(w, v)
      /\ v \notin DOMAIN rightVars
\* after a solve() on a registered value there is still an unregistered one
\* to ask about
C13_Witness ==
  /\ pc = "idle" /\ solves > 0
  /\ Operands # {} /\ AllValues \ Operands # {}
  /\ \E v \in AllValues \ Operands : \E w \in Operands :
       ~aliasCall(This, v, w).result /\ ~aliasCall(This, v, v).result

\* C14: for the Copy cycle a = b; c = a; b = c with the copy c = d into it
\* (a = 0, b = 1, c = 2, d = 3), added in any order, solve() runs to
\* completion and afterwards alias(x, d) is true and alias(d, x) is false for
\* every x of a, b, c
C14_CycleWithEntry ==
  prog.name \in {"Program4", "Program4Order"} =>
    /\ solves = 0 => pc # "aborted"
    /\ Solved => \A x \in {0, 1, 2} : alias(x, 3) /\ ~alias(3, x)
\* solve() has returned after removing the node that d's copy pointed at: the
\* edge that addConstraint drew from d's node is cleared
C14_Witness ==
  /\ prog.name = "Program4Order" /\ Solved
  /\ \E j \in 1 .. Len(G.edges) : G.edges[j].cleared /\ G.edges[j].source = rightVars[3]
  /\ \A x \in {0, 1, 2} : alias(x, 3) /\ ~alias(3, x)

\* C15: for a = &b; c = &d; *a = d; *c = b (a = 0, b = 1, c = 2, d = 3), with
\* or without the copies a = d; c = b, solve() runs to completion and
\* afterwards alias(b, d) and alias(d, b) are true and alias(b, a) and
\* alias(d, c) are false
C15_MutualStore ==
  prog.name \in {"Program5", "Program6"} =>
    /\ solves = 0 => pc # "aborted"
    /\ Solved => alias(1, 3) /\ alias(3, 1) /\ ~alias(1, 0) /\ ~alias(3, 2)
\* solve() has returned on the program with the copies; the two Copy edges
\* and the two store edges have been drawn
C15_Witness ==
  /\ prog.name = "Program6" /\ Solved
  /\ alias(1, 3) /\ alias(3, 1) /\ ~alias(1, 0) /\ ~alias(3, 2)
  /\ Len(G.edges) >= 4

\* C16: in every state that no assertion has cut short, every registered
\* value maps to a live node, the leftVars entry of every node is exactly the
\* set of values that rightVars maps to it, and no removed node has a
\* leftVars entry
C16_VarMapsConsistent ==
  pc # "aborted" =>
    /\ \A v \in DOMAIN rightVars : getNodeOk(G, rightVars[v])
    /\ \A x \in NodeIds : MapGet(leftVars, x) = {v \in DOMAIN rightVars : rightVars[v] = x}
    /\ \A x \in DOMAIN leftVars : getNodeOk(G, x)
\* a collapse has removed a node and a live node holds several values
C16_Witness ==
  /\ pc # "aborted"
  /\ G.numNodes < Len(G.nodes)
  /\ \E x \in DOMAIN leftVars : Cardinality(leftVars[x]) > 1

\* C17: no two live edges have the same <<source, target>> pair, whatever
\* Graph operations and addConstraint and solve() calls have run
C17_NoDuplicateLiveEdge ==
  \A i, j \in 1 .. Len(G.edges) :
    (i # j /\ ~G.edges[i].cleared /\ ~G.edges[j].cleared)
      => <<G.edges[i].source, G.edges[i].target>> # <<G.edges[j].source, G.edges[j].target>>
\* an edge has been removed and an edge between the same two nodes added
\* again, next to another edge of the same source
C17_Witness ==
  \E i, j, k \in 1 .. Len(G.edges) :
    /\ i < j /\ G.edges[i].cleared /\ ~G.edges[j].cleared /\ ~G.edges[k].cleared
    /\ G.edges[i].source = G.edges[j].source /\ G.edges[i].target = G.edges[j].target
    /\ k # j /\ G.edges[k].source = G.edges[j].source

\* C18: no step drops a node entry or makes a tombstoned index live again,
\* the index addNode returns is past every entry there is, and the
\* iteration from nodesBegin() to nodesEnd() over the nodes a step has changed
\* visits exactly the live indices, each once, in increasing order
C18_NodeIndicesNeverReused ==
  [][/\ \A i \in 1 .. Len(G.nodes) :
          i <= Len(G'.nodes) /\ (G.nodes[i].cleared => G'.nodes[i].cleared)
     /\ Len(G'.nodes) > Len(G.nodes) =>
          /\ addConstructedNode(G) >= Len(G.nodes)
          /\ getNodeOk(G', addConstructedNode(G))
     /\ G'.nodes # G.nodes =>
          nodesFrom(G', nodesBegin(G')) = SetToSeq({i \in 0 .. (Len(G'.nodes) - 1) : getNodeOk(G', i)})
    ]_vars
\* the graph driver has added a node past a tombstoned one: the iteration
\* jumps over the tombstone and visits the nodes after it
C18_Witness ==
  /\ prog.name = "graph"
  /\ \E i \in 1 .. Len(G.nodes) : G.nodes[i].cleared /\ i < Len(G.nodes)
  /\ getNodeOk(G, Len(G.nodes) - 1)
  /\ nodesBegin(G) # nodesEnd
  /\ Len(nodesFrom(G, nodesBegin(G))) = G.numNodes


\* the values of a constraint sequence in the order addConstraint registers
\* them (ensureVertex on the source, then on the target): the k-th value
\* registered gets node k - 1
RECURSIVE firstUse(_, _)
firstUse(s, seen) ==
  IF s = <<>>
  THEN seen
  ELSE firstUse(Tail(s),
                IF Head(s).Target \in Range(seen) \cup {Head(s).Source}
                THEN (IF Head(s).Source \in Range(seen) THEN seen ELSE Append(seen, Head(s).Source))
                ELSE Append(IF Head(s).Source \in Range(seen) THEN seen ELSE Append(seen, Head(s).Source),
                            Head(s).Target))

\* the drivers under which value i is registered as node i, so that the bit i
\* of a points-to set names the value i
NumberedInOrder ==
  {"free"} \cup {q.name : q \in {r \in Programs :
       \A r2 \in Programs : r2.name = r.name =>
         \A k \in 1 .. Len(firstUse(r2.todo, <<>>)) : firstUse(r2.todo, <<>>)[k] = k - 1}}

\* pts(v) as values: what the bits of the node v maps to stand for, a bit of
\* a removed node standing for every value now kept by the node it was merged
\* into
ptsOf(v) ==
  {x \in DOMAIN rightVars :
     \E b \in pts[rightVars[v]] : b \in DOMAIN rightVars /\ rightVars[b] = rightVars[x]}

\* the constraint c holds in the points-to sets
satisfied(c) ==
  CASE c.Type = "Copy" -> ptsOf(c.Target) \subseteq ptsOf(c.Source)
    [] c.Type = "AddressOf" -> c.Target \in ptsOf(c.Source)
    [] c.Type = "Load" -> \A ob \in ptsOf(c.Target) : ptsOf(ob) \subseteq ptsOf(c.Source)
    [] c.Type = "Store" -> \A ob \in ptsOf(c.Source) : ptsOf(c.Target) \subseteq ptsOf(ob)

\* C19: when solve() has returned, the points-to sets satisfy every constraint
\* that was added (Copy: subset; AddressOf: membership; Load and Store: subset
\* for every object pointed to), a collapsed node standing for the node it was
\* merged into
C19_SolvedSatisfiesConstraints ==
  (pc = "idle" /\ solves >= 1 /\ clean /\ prog.name \in NumberedInOrder) =>
    \A c \in log : satisfied(c)

\* the name an entry of a stores or loads vector goes by after the collapse of
\* path: a node of the path is named by the path's first node
renamed(path, e) == IF e \in Range(path) THEN path[1] ELSE e

\* C20: a collapse leaves every entry of stores[u] and of loads[u] of every
\* collapsed path node u in stores[origin] respectively loads[origin], origin
\* being the path's first node (an entry that names a collapsed node may be
\* there under the name of origin)
C20_CollapseKeepsStoresLoads ==
  [][(pc = "solving" /\ cycles # <<>> /\ pc' = "solving") =>
       \A i \in 2 .. Len(Head(cycles)) :
         /\ \A e \in stores[Head(cycles)[i]] :
              e \in stores'[Head(cycles)[1]] \/ renamed(Head(cycles), e) \in stores'[Head(cycles)[1]]
         /\ \A e \in loads[Head(cycles)[i]] :
              e \in loads'[Head(cycles)[1]] \/ renamed(Head(cycles), e) \in loads'[Head(cycles)[1]]]_vars

\* the indices the two inner loops of solve() take from pts, loads and stores
\* while processing node m: loads[m] and stores[m] are walked once per bit of
\* pts[m]
readBy(m) == pts[m] \cup (IF pts[m] = {} THEN {} ELSE loads[m] \cup stores[m])

\* C21: whenever solve() is about to take a node from the worklist, the
\* points-to, loads and stores sets it reads for that node name live nodes
\* only, so findEdge and addEdge are never handed a tombstoned node
C21_ReadSetsNameLiveNodes ==
  (pc = "solving" /\ SuccessorsDone /\ findFirstW(W) # NoBit) =>
    \A b \in readBy(findFirstW(W)) : getNodeOk(G, b)

\* C22: the path solve() hands to collapse() next holds live nodes only: no
\* node of it was removed by the collapse of an earlier path that the same
\* findCycles call returned
C22_BatchPathsLive ==
  (pc = "solving" /\ cycles # <<>>) =>
    \A k \in 1 .. Len(Head(cycles)) : getNodeOk(G, Head(cycles)[k])

\* p is a simple cycle of g through s: it starts with s, its nodes are live
\* and pairwise distinct, a live edge joins each node to the next and the last
\* node to s
SimpleCycle(g, s, p) ==
  /\ Len(p) >= 1
  /\ p[1] = s
  /\ \A i \in 1 .. Len(p) : getNodeOk(g, p[i])
  /\ \A i, j \in 1 .. Len(p) : p[i] = p[j] => i = j
  /\ \A i \in 1 .. (Len(p) - 1) : <<p[i], p[i + 1]>> \in liveEdges(g)
  /\ <<p[Len(p)], s>> \in liveEdges(g)

\* C23: in every reachable graph and for every live node s, each path that
\* findCycles(s) returns is a simple cycle through s
C23_PathsAreSimpleCycles ==
  pc # "aborted" =>
    \A s \in 0 .. (Len(G.nodes) - 1) :
      getNodeOk(G, s) => \A p \in Range(findCycles(G, s)) : SimpleCycle(G, s, p)
\* solve() has just called findCycles(z) and got a path of three nodes
C23_Witness ==
  /\ pc = "solving"
  /\ cycles # <<>>
  /\ cycles = findCycles(G, z)
  /\ Len(cycles[1]) >= 3
  /\ SimpleCycle(G, z, cycles[1])

\* the live node s lies on a directed cycle of live edges of g
onCycle(g, s) ==
  \E e \in liveEdges(g) : e[1] = s /\ s \in RefReach(liveEdges(g), {e[2]})

\* C24: when solve() reaches the call findCycles(z) for an edge (n, z) with
\* pts[n] == pts[z] and z lies on a cycle of live edges, the list findCycles
\* returns is not empty
C24_CycleThroughZFound ==
  (/\ pc = "solving"
   /\ cycles = <<>>
   /\ find_next(l, z) # NoBit
   /\ pts[n] = pts[find_next(l, z)]
   /\ <<n, find_next(l, z)>> \notin R
   /\ getNodeOk(G, find_next(l, z))
   /\ onCycle(G, find_next(l, z)))
    => findCycles(G, find_next(l, z)) # <<>>

\* C25: every collapse solve() performs is given a path of at least two
\* pairwise distinct nodes and leaves fewer live nodes than there were
C25_CollapseRemovesNodes ==
  [][(pc = "solving" /\ cycles # <<>> /\ pc' = "solving") =>
       /\ Len(Head(cycles)) >= 2
       /\ \A i, j \in 1 .. Len(Head(cycles)) : Head(cycles)[i] = Head(cycles)[j] => i = j
       /\ G'.numNodes < G.numNodes]_vars

\* C26: while solve() runs, every index in the worklist and in the successor
\* set being iterated is a live node
C26_WorklistHoldsLiveNodes ==
  pc = "solving" => \A m \in W.bits \cup l : getNodeOk(G, m)

\* C27: when solve() visits a successor z of n with pts[n] # pts[z], pts[z]
\* becomes its union with pts[n], z is in the worklist afterwards when the
\* union changed pts[z], and the worklist is left as it was when it did not
C27_DirtyIffChanged ==
  [][(/\ pc = "solving"
      /\ cycles = <<>>
      /\ find_next(l, z) # NoBit
      /\ pts[n] # pts[find_next(l, z)]
      /\ pc' = "solving") =>
       /\ pts'[find_next(l, z)] = pts[find_next(l, z)] \cup pts[n]
       /\ pts'[find_next(l, z)] # pts[find_next(l, z)] => find_next(l, z) \in W'.bits
       /\ pts'[find_next(l, z)] = pts[find_next(l, z)] => W' = W]_vars

\* the live edges of g that have the node m as source or as target
incident(g, m) ==
  {e \in 0 .. (Len(g.edges) - 1) :
     getEdgeOk(g, e) /\ (getEdgeSource(g, e) = m \/ getEdgeTarget(g, e) = m)}

\* g2 is g after removeNode(m): m and its incident edges are tombstoned, the
\* counts have dropped by one and by the number of incident edges, the other
\* nodes have lost the incident edges from their lists and nothing else, and
\* the other edges are as they were
removedFrom(g, g2, m) ==
  /\ Len(g2.nodes) = Len(g.nodes)
  /\ Len(g2.edges) = Len(g.edges)
  /\ g2.nodes[m + 1].cleared
  /\ g2.numNodes = g.numNodes - 1
  /\ g2.numEdges = g.numEdges - Cardinality(incident(g, m))
  /\ \A e \in 0 .. (Len(g.edges) - 1) :
       IF e \in incident(g, m)
       THEN g2.edges[e + 1].cleared
       ELSE g2.edges[e + 1] = g.edges[e + 1]
  /\ \A k \in 0 .. (Len(g.nodes) - 1) :
       k # m =>
         /\ g2.nodes[k + 1].cleared = g.nodes[k + 1].cleared
         /\ inEdges(g2, k) = SelectSeq(inEdges(g, k), LAMBDA e : e \notin incident(g, m))
         /\ outEdges(g2, k) = SelectSeq(outEdges(g, k), LAMBDA e : e \notin incident(g, m))
         /\ getNodeOk(g2, k) =>
              \A e \in incident(g, m) :
                e \notin Range(inEdges(g2, k)) \cup Range(outEdges(g2, k))

\* C28: a removeNode(m) that the graph driver runs on a live node m leaves
\* the graph as removedFrom describes
C28_RemoveNodeFrame ==
  [][(prog.name = "graph" /\ pc' = "idle" /\ G'.numNodes < G.numNodes) =>
       \E m \in 0 .. (Len(G.nodes) - 1) :
         getNodeOk(G, m) /\ ~getNodeOk(G', m) /\ removedFrom(G, G', m)]_vars
\* a node that had a self-loop and an edge to a node that is still live has
\* been removed
C28_Witness ==
  /\ prog.name = "graph"
  /\ pc = "idle"
  /\ \E m, k \in 0 .. (Len(G.nodes) - 1) :
       /\ G.nodes[m + 1].cleared
       /\ getNodeOk(G, k)
       /\ \E e1, e2 \in 1 .. Len(G.edges) :
            /\ G.edges[e1].cleared /\ G.edges[e1].source = m /\ G.edges[e1].target = m
            /\ G.edges[e2].cleared /\ G.edges[e2].source = m /\ G.edges[e2].target = k
       /\ inEdges(G, k) = <<>>

\* how many times x occurs in the sequence s
count(s, x) == Cardinality({i \in 1 .. Len(s) : s[i] = x})

\* C29: as long as no assertion has failed, every live edge has live
\* endpoints and is listed exactly once in its source's out list and exactly
\* once in its target's in list, the adjacency lists hold live edges only,
\* and numNodes and numEdges are the numbers of entries not tombstoned
C29_GraphWellFormed ==
  pc # "aborted" =>
    /\ \A e \in 0 .. (Len(G.edges) - 1) :
         getEdgeOk(G, e) =>
           /\ getNodeOk(G, getEdgeSource(G, e))
           /\ getNodeOk(G, getEdgeTarget(G, e))
           /\ count(outEdges(G, getEdgeSource(G, e)), e) = 1
           /\ count(inEdges(G, getEdgeTarget(G, e)), e) = 1
    /\ \A k \in 0 .. (Len(G.nodes) - 1) :
         /\ \A e \in Range(outEdges(G, k)) : getEdgeOk(G, e) /\ getEdgeSource(G, e) = k
         /\ \A e \in Range(inEdges(G, k)) : getEdgeOk(G, e) /\ getEdgeTarget(G, e) = k
    /\ G.numNodes = Cardinality({k \in 0 .. (Len(G.nodes) - 1) : getNodeOk(G, k)})
    /\ G.numEdges = Cardinality({e \in 0 .. (Len(G.edges) - 1) : getEdgeOk(G, e)})
\* the graph driver has removed a node and an edge and a live edge is left
C29_Witness ==
  /\ prog.name = "graph"
  /\ pc = "idle"
  /\ G.numNodes < Len(G.nodes)
  /\ G.numEdges = 1
  /\ Len(G.edges) = MaxEdges

\* the number of live edges of g from source to target
edgeCount(g, source, target) ==
  Cardinality({e \in 0 .. (Len(g.edges) - 1) :
                 getEdgeOk(g, e) /\ getEdgeSource(g, e) = source
                   /\ getEdgeTarget(g, e) = target})

\* C30: before solve() has run, addConstraint with a Copy constraint that was
\* added before runs to completion, leaves exactly one edge from the node of
\* the value copied to the node of the value assigned, and changes nothing
C30_DuplicateCopyAccepted ==
  (pc = "idle" /\ solves = 0) =>
    \A c \in log :
      c.Type = "Copy" =>
        /\ addConstraint(This, c).ok
        /\ edgeCount(addConstraint(This, c).G, rightVars[c.Target], rightVars[c.Source]) = 1
        /\ addConstraint(This, c) = This

====
